---- MODULE Spec2Model ----
(***************************************************************************)
(* oscilloscope.py: serial acquisition (get_data), frame decoding          *)
(* (parse_data), the consumers (print_info, plot_signal, plot_fft) and the *)
(* main loop that runs them.                                               *)
(*                                                                         *)
(* Representation.  Text is a sequence of one-character strings.  A float  *)
(* is an exact fraction <<num, den>> in lowest terms (den = 0: no value).  *)
(* A byte is its integer value.  The received list of lines (raw_data) is  *)
(* a record: the number of lines, the whitespace tokens of lines 2, 3 and  *)
(* 4, the text of lines 8 and 9, and the text that every sample line       *)
(* carries.  The text a received buffer spells is drawn from Frames when   *)
(* the buffer is decoded; of the bytes themselves the model keeps their    *)
(* order, their number and whether they are 7-bit.                         *)
(***************************************************************************)
EXTENDS Integers, Sequences, FiniteSets, TLC

(* ---------------------------- bounds ----------------------------------- *)
MaxBursts == 2
MaxBurstLen == 2
MaxWaitPolls == 2

(* ------------------------ program constants ---------------------------- *)
NSamples == 2048
XmaxDefault == 4000

(* --------------------------- fractions --------------------------------- *)
RECURSIVE GCD(_, _)
GCD(a, b) == IF b = 0 THEN a ELSE GCD(b, a % b)

Rat(n, d) == IF d = 0 THEN <<0, 0>> ELSE LET g == GCD(n, d) IN
             IF g = 0 THEN <<0, 1>> ELSE <<n \div g, d \div g>>

RatDiv(q, k) == Rat(q[1], q[2] * k)

RatMul(q, k) == Rat(q[1] * k, q[2])

RECURSIVE Pow10(_)
Pow10(n) == IF n = 0 THEN 1 ELSE 10 * Pow10(n - 1)

(* ----------------------------- text ------------------------------------ *)
Digits == <<"0", "1", "2", "3", "4", "5", "6", "7", "8", "9">>

IsDigit(c) == \E i \in 1..10 : Digits[i] = c

DigitVal(c) == (CHOOSE i \in 1..10 : Digits[i] = c) - 1

Whitespace == {" ", "\t", "\r", "\n"}

RECURSIVE DigitsVal(_)
DigitsVal(s) == IF s = <<>> THEN 0
                ELSE 10 * DigitsVal(SubSeq(s, 1, Len(s) - 1)) + DigitVal(s[Len(s)])

(* float(token): an unsigned decimal literal, digits with at most one '.'; *)
(* anything else raises ValueError, reported as <<0, 0>>.                  *)
ParseFloat(tok) ==
    LET dots == {i \in 1..Len(tok) : tok[i] = "."}
        digs == {i \in 1..Len(tok) : IsDigit(tok[i])}
    IN IF digs = {} \/ Cardinality(dots) > 1 \/ dots \cup digs # 1..Len(tok)
       THEN <<0, 0>>
       ELSE IF dots = {}
            THEN Rat(DigitsVal(tok), 1)
            ELSE LET p == CHOOSE i \in dots : TRUE
                     whole == SubSeq(tok, 1, p - 1) \o SubSeq(tok, p + 1, Len(tok))
                 IN Rat(DigitsVal(whole), Pow10(Len(tok) - p))

(* s.replace(old, new) *)
RECURSIVE Replace(_, _, _)
Replace(s, old, new) ==
    IF Len(s) = 0 THEN <<>>
    ELSE IF Len(s) >= Len(old) /\ SubSeq(s, 1, Len(old)) = old
         THEN new \o Replace(SubSeq(s, Len(old) + 1, Len(s)), old, new)
         ELSE <<s[1]>> \o Replace(Tail(s), old, new)

(* s.split(c) for a one-character separator *)
RECURSIVE Split(_, _)
Split(s, c) ==
    LET hits == {i \in 1..Len(s) : s[i] = c}
    IN IF hits = {} THEN <<s>>
       ELSE LET i == CHOOSE k \in hits : \A j \in hits : k <= j
            IN <<SubSeq(s, 1, i - 1)>> \o Split(SubSeq(s, i + 1, Len(s)), c)

(* s.strip() *)
Strip(s) ==
    LET keep == {i \in 1..Len(s) : s[i] \notin Whitespace}
    IN IF keep = {} THEN <<>>
       ELSE LET lo == CHOOSE k \in keep : \A j \in keep : k <= j
                hi == CHOOSE k \in keep : \A j \in keep : k >= j
            IN SubSeq(s, lo, hi)

(* s[:n] *)
Prefix(s, n) == SubSeq(s, 1, IF Len(s) < n THEN Len(s) ELSE n)

(* --------------------------- input space ------------------------------- *)
AsciiByte == 65
HighByte == 200
Bytes == {AsciiByte, HighByte}

Bursts == UNION {[1..n -> Bytes] : n \in 1..MaxBurstLen}

uS == <<"u", "S">>
mS == <<"m", "S">>
S1 == <<"S">>
Sdiv == <<"S", "/", "d", "i", "v">>
mVtext == "mV"
Vtext == "V"

Line2s == { << <<"T">>, <<"5">>, u >> : u \in {uS, mS, S1, Sdiv} }

Line3s == { << <<"t">>, v >> : v \in { <<"2", ".", "5">>, <<"1", "0", "0">>, <<"x">> } }

Line4s == { << <<"C">>, <<"c">>, <<"D", "C", ",">>, <<"V">>, <<"2", "0", "m", "V", "/", "d", "i", "v">> >>,
            << <<"C">>, <<"c">>, <<"D", "C", ",">>, <<"V">>, <<"1", "V", "/", "d", "i", "v">> >>,
            << <<"C">>, <<"c">>, <<"D", "C", ",">>, <<"V">>, <<"V", "/", "d", "i", "v">> >>,
            << <<"C">>, <<"c">>, <<"D", "C", ",">> >> }

Line8s == { <<"V", "a", ":", "1", ",", " ", "V", "i", ":", "2", " ">>,
            <<"V", "a", ":", "1", ",", " ", "V", "i">> }

Line9s == { <<"F", "r", "e", "q", ":", "9", ",", " ", "D", ":", "5">>,
            <<"F", "r", "e", "q", ",", " ", "D", ":", "5">> }

SampleLines == { <<"0", "\t", "1", ".", "5">>, <<"0">>, <<"0", "\t", "x">> }

LineCounts == {2, 9, 14, NSamples + 13, NSamples + 14, NSamples + 15}

Frames == [nlines : LineCounts, l2 : Line2s, l3 : Line3s, l4 : Line4s,
           l8 : Line8s, l9 : Line9s, smp : SampleLines]

NoFrame == [nlines |-> 0, l2 |-> <<>>, l3 |-> <<>>, l4 |-> <<>>,
            l8 |-> <<>>, l9 |-> <<>>, smp |-> <<>>]

EmptyDict == [k \in {} |-> 0]

NoValue == <<0, 0>>

(* ----------------------------- state ----------------------------------- *)
VARIABLES pc, port, in_waiting, buffer, prev_buffer_size, raw_data, plotdict,
          error, errorAt, args, sig_xmax, duration,
          bursts, idlePolls, lastAppended, cycles, waitPolls

vars == <<pc, port, in_waiting, buffer, prev_buffer_size, raw_data, plotdict,
          error, errorAt, args, sig_xmax, duration,
          bursts, idlePolls, lastAppended, cycles, waitPolls>>

locals == <<in_waiting, buffer, prev_buffer_size>>
history == <<bursts, idlePolls, lastAppended, cycles, waitPolls>>
outputs == <<sig_xmax, duration>>

(* --------------------------- parse_data -------------------------------- *)
(* len(raw_data[12:-2]) *)
SampleCount(raw) == IF raw.nlines - 2 > 12 THEN raw.nlines - 2 - 12 ELSE 0

(* lines 87-88 *)
NormalizeTscale(units, t) == IF units = mS THEN RatDiv(t, 1000) ELSE t

(* line 91 *)
VscaleUnitsOf(vscale) == IF vscale[Len(vscale) - 5] = "m" THEN mVtext ELSE Vtext

(* the count check with <= in place of == *)
SampleCountOK_AtMost(n) == n <= NSamples

(* line 97 *)
SampleCountOK(n) == n = NSamples

Failure(e) == [err |-> e, rec |-> EmptyDict]

(* The statements of parse_data in source order; the first one that raises *)
(* decides the result.                                                     *)
ParseData(raw) ==
    IF raw.nlines < 3 \/ Len(raw.l2) < 3 THEN Failure("IndexError")
    ELSE IF raw.nlines < 4 \/ Len(raw.l3) < 1 THEN Failure("IndexError")
    ELSE IF ParseFloat(raw.l3[Len(raw.l3)]) = NoValue THEN Failure("ValueError")
    ELSE IF raw.nlines < 5 \/ Len(raw.l4) < 3 THEN Failure("IndexError")
    ELSE IF Len(raw.l4) < 5 THEN Failure("IndexError")
    ELSE IF Len(raw.l4[5]) < 6 THEN Failure("IndexError")
    ELSE IF raw.nlines < 9 THEN Failure("IndexError")
    ELSE IF raw.nlines < 10 THEN Failure("IndexError")
    ELSE IF SampleCount(raw) > 0 /\ Len(Split(raw.smp, "\t")) < 2 THEN Failure("IndexError")
    ELSE IF SampleCount(raw) > 0 /\ ParseFloat(Split(raw.smp, "\t")[2]) = NoValue
         THEN Failure("ValueError")
    ELSE IF ~SampleCountOK(SampleCount(raw)) THEN Failure("AssertionError")
    ELSE [err |-> "none",
          rec |-> [TscaleUnits  |-> Prefix(raw.l2[3], 2),
                   Tscale       |-> NormalizeTscale(Prefix(raw.l2[3], 2),
                                                    ParseFloat(raw.l3[Len(raw.l3)])),
                   coupling     |-> Replace(raw.l4[3], <<",">>, <<>>),
                   Vscale       |-> raw.l4[5],
                   VscaleUnits  |-> VscaleUnitsOf(raw.l4[5]),
                   VoltageStats |-> Replace(Strip(raw.l8), <<",", " ">>, <<"\n">>),
                   SignalStats  |-> Replace(Strip(raw.l9), <<",", " ">>, <<"\n">>),
                   ch1          |-> [len |-> SampleCount(raw),
                                     val |-> IF SampleCount(raw) > 0
                                             THEN ParseFloat(Split(raw.smp, "\t")[2])
                                             ELSE NoValue]]]

(* ---------------------------- consumers -------------------------------- *)
(* print_info: parts[1] of an entry without ':' raises IndexError *)
StatsFail(text) == \E i \in 1..Len(Split(text, "\n")) :
                      Len(Split(Split(text, "\n")[i], ":")) < 2

PrintInfoFails(d) == StatsFail(d.VoltageStats) \/ StatsFail(d.SignalStats)

(* the update writing the key Tscale in place of xmax_FFT *)
UpdatedDict_Clobber(d, a) == ("Tscale" :> <<a.xmax, 1>>) @@ ("no_stats" :> a.no_stats) @@ d

(* lines 221-222 *)
UpdatedDict(d, a) == ("xmax_FFT" :> a.xmax) @@ ("no_stats" :> a.no_stats) @@ d

(* time[-1] of lines 110 and 144 *)
TimeLast(tscale) == RatDiv(RatMul(tscale, NSamples - 1), 25)

KnownUnits == {uS, mS, S1}

(* lines 146-151 *)
Duration(units, tlast) ==
    IF units = uS THEN RatDiv(tlast, 1000000)
    ELSE IF units = mS THEN RatDiv(tlast, 1000)
    ELSE tlast

(* ----------------------------- actions --------------------------------- *)
(* the exception caught by the loop, which starts over *)
Raise_Restart(e, fn) == /\ pc' = "get_data"
                        /\ error' = e
                        /\ errorAt' = fn

(* an uncaught exception leaves the main loop and ends the process *)
Raise(e, fn) == /\ pc' = "terminated"
                /\ error' = e
                /\ errorAt' = fn

Init == /\ pc = "get_data"
        /\ port = "closed"
        /\ in_waiting = <<>>
        /\ buffer = <<>>
        /\ prev_buffer_size = 0
        /\ raw_data = NoFrame
        /\ plotdict = EmptyDict
        /\ error = "none"
        /\ errorAt = "none"
        /\ args \in [fft : BOOLEAN, no_stats : BOOLEAN, xmax : {XmaxDefault}]
        /\ sig_xmax = NoValue
        /\ duration = NoValue
        /\ bursts = <<>>
        /\ idlePolls = 0
        /\ lastAppended = 0
        /\ cycles = 0
        /\ waitPolls = 0

(* lines 215, 40-45: the call, the port opened and flushed, the empty      *)
(* buffer.  The previous cycle's raw_data and plotdict are rebound before  *)
(* they are read again; they are dropped here.                             *)
Open == /\ pc = "get_data"
        /\ pc' = "g_wait"
        /\ port' = "open"
        /\ in_waiting' = <<>>
        /\ buffer' = <<>>
        /\ prev_buffer_size' = 0
        /\ raw_data' = NoFrame
        /\ plotdict' = EmptyDict
        /\ bursts' = <<>>
        /\ idlePolls' = 0
        /\ lastAppended' = 0
        /\ cycles' = 0
        /\ waitPolls' = 0
        /\ UNCHANGED <<error, errorAt, args, outputs>>

(* line 40 when the device cannot be opened *)
OpenFail == /\ pc = "get_data"
            /\ Raise("SerialException", "get_data")
            /\ UNCHANGED <<port, locals, raw_data, plotdict, args, outputs, history>>

(* the oscilloscope puts a burst of bytes on the line *)
DeviceSend == /\ port = "open"
              /\ pc # "terminated"
              /\ Len(bursts) < MaxBursts
              /\ \E b \in Bursts :
                    /\ in_waiting' = in_waiting \o b
                    /\ bursts' = Append(bursts, [data |-> b, idleBefore |-> idlePolls])
              /\ UNCHANGED <<pc, port, buffer, prev_buffer_size, raw_data, plotdict,
                             error, errorAt, args, outputs,
                             idlePolls, lastAppended, cycles, waitPolls>>

(* the initial wait giving up after MaxWaitPolls idle polls *)
WaitExit_Timeout(waiting) == Len(waiting) # 0 \/ waitPolls >= MaxWaitPolls

(* lines 48-53 *)
WaitExit(waiting) == Len(waiting) # 0

WaitPoll == /\ pc = "g_wait"
            /\ IF WaitExit(in_waiting)
               THEN /\ pc' = "g_loop"
                    /\ prev_buffer_size' = 0
                    /\ UNCHANGED waitPolls
               ELSE /\ waitPolls' = IF waitPolls < MaxWaitPolls THEN waitPolls + 1
                                    ELSE waitPolls
                    /\ UNCHANGED <<pc, prev_buffer_size>>
            /\ UNCHANGED <<port, in_waiting, buffer, raw_data, plotdict, error, errorAt,
                           args, outputs, bursts, idlePolls, lastAppended, cycles>>

(* buffer = read(...) in place of buffer += read(...) *)
ReadInto_Overwrite(buf, waiting) == waiting

(* line 57 *)
ReadInto(buf, waiting) == buf \o waiting

(* the exit test without the comparison to the previous size *)
ExitCondition_NoPrev(prev, buf) == Len(buf) # 0

(* line 59 *)
ExitCondition(prev, buf) == prev = Len(buf) /\ Len(buf) # 0

(* lines 54-62: one poll cycle *)
LoopCycle ==
    /\ pc = "g_loop"
    /\ LET newbuf == IF Len(in_waiting) > 0 THEN ReadInto(buffer, in_waiting) ELSE buffer
       IN /\ buffer' = newbuf
          /\ in_waiting' = <<>>
          /\ IF ExitCondition(prev_buffer_size, newbuf)
             THEN /\ pc' = "g_decode"
                  /\ UNCHANGED prev_buffer_size
             ELSE /\ pc' = "g_loop"
                  /\ prev_buffer_size' = Len(newbuf)
          /\ lastAppended' = Len(newbuf) - Len(buffer)
          /\ idlePolls' = IF Len(in_waiting) = 0 THEN idlePolls + 1 ELSE idlePolls
          /\ cycles' = cycles + 1
    /\ UNCHANGED <<port, raw_data, plotdict, error, errorAt, args, outputs,
                   bursts, waitPolls>>

(* str(line, 'ascii') *)
AsciiOK(buf) == \A i \in 1..Len(buf) : buf[i] < 128

(* lines 65-70 *)
Decode ==
    /\ pc = "g_decode"
    /\ IF AsciiOK(buffer)
       THEN /\ \E f \in Frames : raw_data' = f
            /\ port' = "closed"
            /\ pc' = "parse"
            /\ in_waiting' = <<>>
            /\ buffer' = <<>>
            /\ prev_buffer_size' = 0
            /\ bursts' = <<>>
            /\ idlePolls' = 0
            /\ lastAppended' = 0
            /\ cycles' = 0
            /\ waitPolls' = 0
            /\ UNCHANGED <<error, errorAt>>
       ELSE /\ Raise("UnicodeDecodeError", "get_data")
            /\ UNCHANGED <<port, locals, raw_data, history>>
    /\ UNCHANGED <<plotdict, args, outputs>>

(* line 217 *)
Parse ==
    /\ pc = "parse"
    /\ LET r == ParseData(raw_data)
       IN IF r.err = "none"
          THEN /\ plotdict' = r.rec
               /\ pc' = "print_info"
               /\ UNCHANGED <<error, errorAt>>
          ELSE /\ Raise(r.err, "parse_data")
               /\ UNCHANGED plotdict
    /\ UNCHANGED <<port, locals, raw_data, args, outputs, history>>

(* line 219 *)
PrintInfo ==
    /\ pc = "print_info"
    /\ IF PrintInfoFails(plotdict)
       THEN Raise("IndexError", "print_info")
       ELSE /\ pc' = "update"
            /\ UNCHANGED <<error, errorAt>>
    /\ UNCHANGED <<port, locals, raw_data, plotdict, args, outputs, history>>

(* lines 221-222 *)
Update ==
    /\ pc = "update"
    /\ plotdict' = UpdatedDict(plotdict, args)
    /\ pc' = "plot_signal"
    /\ UNCHANGED <<port, locals, raw_data, error, errorAt, args, outputs, history>>

(* lines 227-234, 110-129 *)
PlotSignal ==
    /\ pc = "plot_signal"
    /\ sig_xmax' = TimeLast(plotdict.Tscale)
    /\ pc' = IF args.fft THEN "plot_fft" ELSE "show"
    /\ UNCHANGED <<port, locals, raw_data, plotdict, error, errorAt, args, duration,
                   history>>

(* lines 230, 144-170; an unknown unit leaves duration unbound at line 156 *)
PlotFFT ==
    /\ pc = "plot_fft"
    /\ IF plotdict.TscaleUnits \in KnownUnits
       THEN /\ duration' = Duration(plotdict.TscaleUnits, TimeLast(plotdict.Tscale))
            /\ pc' = "show"
            /\ UNCHANGED <<error, errorAt>>
       ELSE /\ Raise("UnboundLocalError", "plot_fft")
            /\ UNCHANGED duration
    /\ UNCHANGED <<port, locals, raw_data, plotdict, args, sig_xmax, history>>

(* lines 236-239: the figure is shown and closed, the loop starts over *)
Show ==
    /\ pc = "show"
    /\ pc' = "get_data"
    /\ sig_xmax' = NoValue
    /\ duration' = NoValue
    /\ UNCHANGED <<port, locals, raw_data, plotdict, error, errorAt, args, history>>

Next == \/ Open
        \/ OpenFail
        \/ DeviceSend
        \/ WaitPoll
        \/ LoopCycle
        \/ Decode
        \/ Parse
        \/ PrintInfo
        \/ Update
        \/ PlotSignal
        \/ PlotFFT
        \/ Show

Spec == Init /\ [][Next]_vars

(* ============================ properties =============================== *)
InGetData == pc \in {"g_wait", "g_loop", "g_decode"}

(* the record is in the hands of the main loop or of a consumer *)
RecordPcs == {"print_info", "update", "plot_signal", "plot_fft", "show"}

(* parse_data has run on raw_data *)
ParseDone == raw_data # NoFrame /\ pc # "parse"

RawUnits == Prefix(raw_data.l2[3], 2)
RawTscale == ParseFloat(raw_data.l3[Len(raw_data.l3)])

(* a value read in the given unit, in seconds *)
SecondsOf(units, v) ==
    IF units = uS THEN RatDiv(v, 1000000)
    ELSE IF units = mS THEN RatDiv(v, 1000)
    ELSE v

(* the data of the bursts that arrived before any idle poll cycle *)
RECURSIVE ConcatBeforeIdle(_)
ConcatBeforeIdle(bs) ==
    IF bs = <<>> THEN <<>>
    ELSE (IF Head(bs).idleBefore = 0 THEN Head(bs).data ELSE <<>>)
         \o ConcatBeforeIdle(Tail(bs))

(* C1: a poll cycle of the accumulation loop leaves the loop exactly when  *)
(* it appended no byte and the buffer is not empty; the loop is never      *)
(* still running after an idle cycle, and at completion exactly one idle   *)
(* cycle has been seen, the last one, after at least one reading cycle.    *)
C1_QuiescenceExit ==
    /\ [][(pc = "g_loop" /\ cycles' = cycles + 1)
            => ((pc' = "g_decode") <=> (Len(buffer') = Len(buffer) /\ Len(buffer') # 0))]_vars
    /\ [](pc = "g_loop" => idlePolls = 0)
    /\ [](pc = "g_decode" => /\ lastAppended = 0
                             /\ idlePolls = 1
                             /\ cycles >= 2
                             /\ Len(buffer) # 0)

C1_Witness == pc = "g_decode" /\ cycles = 3 /\ Len(bursts) = 2 /\ Len(buffer) >= 2

(* C2 as stated: with two bursts and an idle poll cycle observed between   *)
(* them, the completed transmission is the concatenation of both bursts.   *)
C2_Original ==
    (pc = "g_decode" /\ Len(bursts) = 2 /\ bursts[2].idleBefore > bursts[1].idleBefore)
        => buffer = bursts[1].data \o bursts[2].data

(* C2 amended: the completed transmission is the concatenation, in order,  *)
(* of the bursts that arrived before the first idle poll cycle, and it is  *)
(* complete at that cycle; two bursts are both in it exactly when no poll  *)
(* cycle fell idle between them.                                           *)
C2_Amended ==
    pc = "g_decode" =>
        /\ buffer = ConcatBeforeIdle(bursts)
        /\ idlePolls = 1
        /\ Len(bursts) = 2 =>
              ((buffer = bursts[1].data \o bursts[2].data) <=> bursts[2].idleBefore = 0)

C2_Witness ==
    /\ pc = "g_decode"
    /\ Len(bursts) = 2
    /\ cycles = 3
    /\ bursts[2].idleBefore = 0
    /\ buffer = bursts[1].data \o bursts[2].data

(* C3 as stated: once get_data has exited, by return or by error, the port *)
(* it opened is closed.                                                    *)
C3_ClosedOnEveryExit == ~InGetData => port = "closed"

FieldsWellFormed(raw) ==
    /\ raw.nlines >= 10
    /\ Len(raw.l2) >= 3
    /\ Len(raw.l3) >= 1
    /\ ParseFloat(raw.l3[Len(raw.l3)]) # NoValue
    /\ Len(raw.l4) >= 5
    /\ Len(raw.l4[5]) >= 6
    /\ SampleCount(raw) > 0 =>
          /\ \E i \in 1..Len(raw.smp) : raw.smp[i] = "\t"
          /\ ParseFloat(Split(raw.smp, "\t")[2]) # NoValue

(* C4 as stated: a record is returned only for 2048 samples, and every     *)
(* transmission with another sample count fails with the sample-count      *)
(* assertion.                                                              *)
C4_Original ==
    /\ pc \in RecordPcs => SampleCount(raw_data) = NSamples
    /\ (ParseDone /\ SampleCount(raw_data) # NSamples)
          => (pc = "terminated" /\ errorAt = "parse_data" /\ error = "AssertionError")

(* C4 amended: a record is returned only for 2048 samples; a transmission  *)
(* with another sample count fails in parse_data and leaves no record; the *)
(* failure is the sample-count assertion when the transmission has its ten *)
(* leading lines and well-formed fields and sample lines, and otherwise    *)
(* the IndexError or ValueError of the first malformed field.              *)
C4_Amended ==
    /\ pc \in RecordPcs => (SampleCount(raw_data) = NSamples /\ plotdict.ch1.len = NSamples)
    /\ (ParseDone /\ SampleCount(raw_data) # NSamples)
          => /\ pc = "terminated"
             /\ errorAt = "parse_data"
             /\ plotdict = EmptyDict
             /\ IF FieldsWellFormed(raw_data)
                THEN error = "AssertionError"
                ELSE error \in {"IndexError", "ValueError"}

C4_Witness ==
    /\ pc = "terminated"
    /\ error = "AssertionError"
    /\ SampleCount(raw_data) = NSamples - 1

(* C5 as stated: a fatal decode error does not end the program.            *)
C5_Original ==
    error \in {"AssertionError", "ValueError", "UnicodeDecodeError"} => pc # "terminated"

(* C5 amended: a fatal decode error, like every other exception, is not    *)
(* caught: it ends the main loop and the program, which never starts       *)
(* another cycle afterwards.                                               *)
C5_Amended ==
    /\ [](error # "none" => pc = "terminated")
    /\ [][pc = "terminated" => pc' = "terminated"]_vars

C5_Witness == pc = "terminated" /\ error = "ValueError" /\ errorAt = "parse_data"

(* some entry of a statistics line has no ':' *)
MissingColon(line) ==
    LET entries == Split(Replace(Strip(line), <<",", " ">>, <<"\n">>), "\n")
    IN \E i \in 1..Len(entries) : \A j \in 1..Len(entries[i]) : entries[i][j] # ":"

(* C6 as stated: no record built from a transmission whose line 8 or 9 has *)
(* an entry without ':' reaches a consumer.                                *)
C6_NoMalformedStatsToConsumer ==
    (pc \in RecordPcs \/ errorAt \in {"print_info", "plot_fft"})
        => (~MissingColon(raw_data.l8) /\ ~MissingColon(raw_data.l9))

(* C7: as long as the device has sent no byte, get_data stays in its       *)
(* initial wait: it neither reaches the accumulation loop nor returns nor  *)
(* gives up.                                                               *)
C7_SilentDeviceHangs ==
    /\ []((InGetData /\ bursts = <<>>) => pc = "g_wait")
    /\ [][(pc = "g_wait" /\ bursts' = <<>>) => pc' = "g_wait"]_vars

C7_Witness == pc = "g_wait" /\ bursts = <<>> /\ waitPolls = MaxWaitPolls

(* C8 as stated: the returned Tscale is the device value in seconds for    *)
(* each of uS, mS and S, and TscaleUnits is the device's unit label.       *)
C8_TscaleInSeconds ==
    (pc = "print_info" /\ RawUnits \in KnownUnits)
        => /\ plotdict.Tscale = SecondsOf(RawUnits, RawTscale)
           /\ plotdict.TscaleUnits = RawUnits

(* C9 as stated: between parse_data returning and the next cycle no step   *)
(* changes the record.                                                     *)
C9_Original ==
    [][(plotdict # EmptyDict /\ pc # "get_data") => plotdict' = plotdict]_vars

(* C9 amended: between parse_data returning and the next cycle the record  *)
(* is changed only by the main loop's update step, which adds the entries  *)
(* xmax_FFT and no_stats; no entry written by parse_data is changed or     *)
(* removed, and no consumer changes the record.                            *)
C9_Amended ==
    [][(plotdict # EmptyDict /\ pc # "get_data")
         => /\ \A k \in DOMAIN plotdict :
                  k \in DOMAIN plotdict' /\ plotdict'[k] = plotdict[k]
            /\ plotdict' # plotdict
                  => /\ pc = "update"
                     /\ DOMAIN plotdict' = DOMAIN plotdict \cup {"xmax_FFT", "no_stats"}]_vars

C9_Witness == pc = "plot_signal" /\ "xmax_FFT" \in DOMAIN plotdict /\ "Tscale" \in DOMAIN plotdict

(* C10 as stated: the duration plot_fft computes is 2047 times the device  *)
(* time scale in seconds, divided by 25.                                   *)
C10_DurationInSeconds ==
    (pc = "show" /\ duration # NoValue)
        => duration = RatDiv(RatMul(SecondsOf(RawUnits, RawTscale), NSamples - 1), 25)

====
